---- MODULE Spec2Model ----
(***************************************************************************)
(* SRP-6a client and server sessions of posterity/srp.                     *)
(*                                                                         *)
(* Byte strings ([]byte, string) are sequences over 0..255.  *big.Int      *)
(* values are integers, the nil pointer is Nil.  The RFC 5054 moduli are   *)
(* scaled down to 8-bit primes (bit length a multiple of 8, as the RFC     *)
(* moduli have) and the digest of crypto.Hash to one byte, so that the     *)
(* arithmetic of every formula is computed in full.                        *)
(***************************************************************************)
EXTENDS Integers, Sequences, FiniteSets, TLC

VARIABLES group, db, client, server, ret, hist, registeredGroups, calls

vars == <<group, db, client, server, ret, hist, registeredGroups, calls>>

(* ---------------------------------------------------------------------- *)
(* Bounds of the model                                                     *)
(* ---------------------------------------------------------------------- *)

\* private exponents a and b are drawn from 1..MaxExp
MaxExp == 2

Exponents == 1 .. MaxExp

\* enrolled accounts: <<username, password, salt>>
Accounts == {<<<<97>>, <<112>>, <<7>>>>, <<<<98, 111>>, <<113>>, <<1, 2>>>>}

\* passwords a client may type
Passwords == {acct[2] : acct \in Accounts}

(* ---------------------------------------------------------------------- *)
(* nil values                                                              *)
(* ---------------------------------------------------------------------- *)

Nil == 0 - 1

NilBytes == <<Nil>>

NoErr == "nil"

(* ---------------------------------------------------------------------- *)
(* math/big                                                                *)
(* ---------------------------------------------------------------------- *)

RECURSIVE SetBytes(_)
SetBytes(s) ==
    IF s = <<>> THEN 0
    ELSE SetBytes(SubSeq(s, 1, Len(s) - 1)) * 256 + s[Len(s)]

RECURSIVE Bytes(_)
Bytes(n) ==
    IF n = 0 THEN <<>> ELSE Append(Bytes(n \div 256), n % 256)

RECURSIVE BitLen(_)
BitLen(n) ==
    IF n = 0 THEN 0 ELSE 1 + BitLen(n \div 2)

RECURSIVE Exp(_, _, _)
Exp(x, y, m) ==
    IF y <= 0 THEN 1 % m
    ELSE LET h == Exp(x, y \div 2, m)
             sq == (h * h) % m
         IN  IF y % 2 = 0 THEN sq ELSE (sq * (x % m)) % m

RECURSIVE GCD(_, _)
GCD(a, b) ==
    IF b = 0 THEN a ELSE GCD(b, a % b)

RECURSIVE XorByte(_, _)
XorByte(a, b) ==
    IF a = 0 /\ b = 0 THEN 0
    ELSE (((a % 2) + (b % 2)) % 2) + 2 * XorByte(a \div 2, b \div 2)

Zeros(n) == [i \in 1 .. n |-> 0]

(* ---------------------------------------------------------------------- *)
(* crypto.Hash: a one-byte digest                                          *)
(* ---------------------------------------------------------------------- *)

RECURSIVE Mix(_, _)
Mix(h, s) ==
    IF s = <<>> THEN h
    ELSE Mix((h * 37 + Head(s) + 1) % 256, Tail(s))

Seed(hash) == IF hash = "SHA1" THEN 17 ELSE 29

\* h.Write(s); h.Sum(nil)[:h.Size()]
Digest(hash, s) == <<Mix(Seed(hash), s)>>

\* h.Size()
Size(hash) == Len(Digest(hash, <<>>))

\* hash.Hash.Sum(b): appends the current digest to b
Sum(hash, written, b) == b \o Digest(hash, written)

(* ---------------------------------------------------------------------- *)
(* groups                                                                  *)
(* ---------------------------------------------------------------------- *)

RFC5054KDF(username, password, salt) ==
    LET digest == Digest("SHA1", username \o <<58>> \o password)
    IN  Digest("SHA1", salt \o digest)

KDF(g, username, password, salt) ==
    IF g.KDF = "RFC5054KDF" THEN RFC5054KDF(username, password, salt)
    ELSE Digest(g.Hash, password \o salt)

hashBytes(g, a) == Digest(g.Hash, a)

RFC5054Group2048 ==
    [Name |-> "2048", Generator |-> 2, N |-> 167, Hash |-> "SHA1", KDF |-> "RFC5054KDF"]

RFC5054Group3072 ==
    [Name |-> "3072", Generator |-> 5, N |-> 227, Hash |-> "SHA1", KDF |-> "RFC5054KDF"]

\* a deprecated group: defined, but under no key of Groups
RFC5054Group1024 ==
    [Name |-> "1024", Generator |-> 2, N |-> 131, Hash |-> "SHA1", KDF |-> "RFC5054KDF"]

Groups ==
    [n \in {"2048", "3072"} |->
        IF n = "2048" THEN RFC5054Group2048 ELSE RFC5054Group3072]

NoGroup ==
    [Name |-> "", Generator |-> 0, N |-> 0, Hash |-> "", KDF |-> ""]

(* ---------------------------------------------------------------------- *)
(* protocol primitives                                                     *)
(* ---------------------------------------------------------------------- *)

\* pad left-pads b with zeros up to bits / 8 bytes
pad(b, bits) ==
    LET length  == bits \div 8
        padding == length - Len(b)
    IN  IF padding < 0
        THEN [ok |-> FALSE, val |-> <<>>, err |-> "padding cannot be negative"]
        ELSE [ok |-> TRUE, val |-> Zeros(padding) \o b, err |-> NoErr]

xorBytes(a, b) ==
    IF Len(a) # Len(b)
    THEN [ok |-> FALSE, val |-> <<>>, err |-> "slices must be of equal length"]
    ELSE [ok |-> TRUE, val |-> [i \in 1 .. Len(a) |-> XorByte(a[i], b[i])], err |-> NoErr]

\* M1 = H(H(N) XOR H(g) | H(U) | s | A | B | K), kept as a big.Int
computeM1(g, username, salt, A, B, K) ==
    LET hN == hashBytes(g, Bytes(g.N))
        hg == hashBytes(g, Bytes(g.Generator))
        hU == hashBytes(g, username)
        groupXOR == xorBytes(hN, hg)
    IN  IF ~groupXOR.ok
        THEN [ok |-> FALSE, val |-> Nil, err |-> groupXOR.err]
        ELSE [ok |-> TRUE,
              val |-> SetBytes(Digest(g.Hash,
                         groupXOR.val \o hU \o salt \o Bytes(A) \o Bytes(B) \o K)),
              err |-> NoErr]

\* M2 = H(A | M1 | K), kept as a big.Int
computeM2(g, A, M1, K) ==
    [ok |-> TRUE,
     val |-> SetBytes(Digest(g.Hash, Bytes(A) \o Bytes(M1) \o K)),
     err |-> NoErr]

\* mutant: proofs of equal length are taken as equal
checkProof_LengthOnly(Mx, proof) == Len(Mx) = Len(proof)

\* mutant: only the first len(Mx) bytes of the proof are compared
checkProof_Prefix(Mx, proof) ==
    /\ Len(Mx) <= Len(proof)
    /\ \A i \in 1 .. Len(Mx) : Mx[i] = proof[i]

\* subtle.ConstantTimeCompare(Mx, proof) == 1
checkProof(Mx, proof) ==
    /\ Len(Mx) = Len(proof)
    /\ \A i \in 1 .. Len(Mx) : Mx[i] = proof[i]

\* S = (A * v^u) ^ b % N
computeServerS(g, v, u, A, b) ==
    LET base == Exp(v, u, g.N) * A
    IN  [ok |-> TRUE, val |-> Exp(base, b, g.N), err |-> NoErr]

\* S = (B - (k * g^x)) ^ (a + (u * x)) % N
computeClientS(g, k, x, u, B, a) ==
    LET product == k * Exp(g.Generator, x, g.N)
        base    == B - product
        exp     == a + (u * x)
    IN  [ok |-> TRUE, val |-> Exp(base, exp, g.N), err |-> NoErr]

\* k = H(N | PAD(g))
computeLittleK(g) ==
    LET pg == pad(Bytes(g.Generator), BitLen(g.N))
    IN  IF ~pg.ok
        THEN [ok |-> FALSE, val |-> Nil, err |-> "failed to pad g"]
        ELSE [ok |-> TRUE,
              val |-> SetBytes(Digest(g.Hash, Bytes(g.N) \o pg.val)),
              err |-> NoErr]

\* u = H(PAD(A) | PAD(B))
computeLittleU(g, A, B) ==
    IF A = Nil
    THEN [ok |-> FALSE, val |-> Nil, err |-> "client public ephemeral A must be set first"]
    ELSE LET bA == pad(Bytes(A), BitLen(g.N))
             bB == pad(Bytes(B), BitLen(g.N))
         IN  IF ~bA.ok THEN [ok |-> FALSE, val |-> Nil, err |-> "failed to pad A"]
             ELSE IF ~bB.ok THEN [ok |-> FALSE, val |-> Nil, err |-> "failed to pad B"]
             ELSE [ok |-> TRUE,
                   val |-> SetBytes(Digest(g.Hash, bA.val \o bB.val)),
                   err |-> NoErr]

\* the key pair (b, B) of the random exponent b: B = k*v + g^b % N
newServerKeyPair(g, k, v, b) ==
    LET term1 == (k * v) % g.N
        term2 == Exp(g.Generator, b, g.N)
    IN  [b |-> b, B |-> (term1 + term2) % g.N]

\* mutant: the public key is a multiple of g instead of a power
newClientKeyPair_Multiple(g, a) ==
    [a |-> a, A |-> (g.Generator * a) % g.N]

\* the key pair (a, A) of the random exponent a: A = g^a % N
newClientKeyPair(g, a) ==
    [a |-> a, A |-> Exp(g.Generator, a, g.N)]

\* mutant: only the value zero is refused
isValidEphemeralKey_OnlyZero(g, i) == i # 0

isValidEphemeralKey(g, i) ==
    IF i % g.N = 0 THEN FALSE
    ELSE IF GCD(i, g.N) # 1 THEN FALSE
    ELSE TRUE

(* ---------------------------------------------------------------------- *)
(* Triplet                                                                 *)
(* ---------------------------------------------------------------------- *)

MaxUint8 == 255

\* utf8.RuneCountInString: continuation bytes (10xxxxxx) start no rune
RuneCount(s) == Cardinality({i \in 1 .. Len(s) : s[i] < 128 \/ s[i] > 191})

\* NewTriplet(username string, verifier, salt []byte)
NewTriplet(username, verifier, salt) ==
    IF RuneCount(username) > MaxUint8 THEN [panic |-> TRUE, val |-> NilBytes]
    ELSE IF Len(salt) > MaxUint8 THEN [panic |-> TRUE, val |-> NilBytes]
    ELSE [panic |-> FALSE,
          val |-> <<Len(username) % 256>> \o username
                    \o <<Len(salt) % 256>> \o salt \o verifier]

\* p[lo:hi] of a slice whose capacity is its length
Slice(p, lo, hi) ==
    IF lo < 0 \/ hi < lo \/ hi > Len(p)
    THEN [panic |-> TRUE, val |-> <<>>]
    ELSE [panic |-> FALSE, val |-> SubSeq(p, lo + 1, hi)]

\* p[i]
Index(p, i) ==
    IF i < 0 \/ i >= Len(p)
    THEN [panic |-> TRUE, val |-> 0]
    ELSE [panic |-> FALSE, val |-> p[i + 1]]

Username(p) ==
    LET usernameLen == Index(p, 0)
    IN  IF usernameLen.panic THEN [panic |-> TRUE, val |-> <<>>]
        ELSE Slice(p, 1, 1 + usernameLen.val)

Salt(p) ==
    LET usernameLen == Index(p, 0)
    IN  IF usernameLen.panic THEN [panic |-> TRUE, val |-> <<>>]
        ELSE LET saltLen == Index(p, usernameLen.val + 1)
             IN  IF saltLen.panic THEN [panic |-> TRUE, val |-> <<>>]
                 ELSE Slice(p, usernameLen.val + 2, usernameLen.val + 2 + saltLen.val)

Verifier(p) ==
    LET usernameLen == Index(p, 0)
    IN  IF usernameLen.panic THEN [panic |-> TRUE, val |-> <<>>]
        ELSE LET saltLen == Index(p, usernameLen.val + 1)
             IN  IF saltLen.panic THEN [panic |-> TRUE, val |-> <<>>]
                 ELSE Slice(p, usernameLen.val + saltLen.val + 2, Len(p))

\* (*Triplet).Scan: a nil value leaves t alone, a []byte replaces it
Scan(t, v) == IF v = NilBytes THEN t ELSE v

(* ---------------------------------------------------------------------- *)
(* errors                                                                  *)
(* ---------------------------------------------------------------------- *)

ErrServerNoReady == "client's public ephemeral key (A) must be set first"

ErrClientNotReady == "server's public ephemeral key (B) must be set first"

ErrUnknownGroup == "unregistered group"

ErrInvalidPublic == "invalid public exponent"

ErrInvalidU == "invalid u value"

ErrProofFirst == "client must show their proof first"

ErrM1Failed == "failed to verify client proof M1"

ErrPanic == "panic"

ErrGroupExists == "group named \"s\" already exists"

\* the Go runtime's "fatal error: concurrent map writes"
ErrFatalMapWrites == "fatal error: concurrent map writes"

(* ---------------------------------------------------------------------- *)
(* Registration of groups                                                  *)
(* ---------------------------------------------------------------------- *)

\* the map registeredGroups as the package initialises it
BuiltinGroups == Groups

\* two different custom groups with one name
CustomGroupA == [RFC5054Group2048 EXCEPT !.Name = "Custom Group"]

CustomGroupB == [RFC5054Group3072 EXCEPT !.Name = "Custom Group"]

\* registeredGroups[g.Name] = g
MapStore(rg, g) ==
    [n \in DOMAIN rg \cup {g.Name} |-> IF n = g.Name THEN g ELSE rg[n]]

\* a group that bears the name of a registered group and has other parameters
ImpostorGroup == [RFC5054Group1024 EXCEPT !.Name = RFC5054Group2048.Name]

\* mutant: Register overwrites a registered name
Register_Overwrites(rg, g) ==
    [rg |-> MapStore(rg, g), err |-> NoErr]

\* Register called with the map rg, no other call running
Register(rg, g) ==
    IF g.Name \in DOMAIN rg
    THEN [rg |-> rg, err |-> ErrGroupExists]
    ELSE [rg |-> MapStore(rg, g), err |-> NoErr]

(* ---------------------------------------------------------------------- *)
(* Client                                                                  *)
(* ---------------------------------------------------------------------- *)

NoClient ==
    [username |-> NilBytes, salt |-> NilBytes, x |-> Nil, a |-> Nil, xA |-> Nil,
     xB |-> Nil, m1 |-> Nil, m2 |-> Nil, xS |-> Nil, xK |-> NilBytes,
     group |-> NoGroup]

\* NewClient with the random exponent a
NewClient(g, username, password, salt, a) ==
    IF g.Name \notin DOMAIN Groups
    THEN [c |-> NoClient, err |-> ErrUnknownGroup]
    ELSE LET x  == KDF(g, username, password, salt)
             kp == newClientKeyPair(g, a)
         IN  [c |-> [username |-> username, salt |-> salt, x |-> SetBytes(x),
                     a |-> kp.a, xA |-> kp.A, xB |-> Nil, m1 |-> Nil, m2 |-> Nil,
                     xS |-> Nil, xK |-> NilBytes, group |-> g],
              err |-> NoErr]

\* mutant: B is stored before it is checked
SetB_StoresFirst(c, public) ==
    LET B  == SetBytes(public)
        c1 == [c EXCEPT !.xB = B]
    IN  IF ~isValidEphemeralKey(c.group, B) THEN [c |-> c1, err |-> ErrInvalidPublic]
        ELSE
        LET k == computeLittleK(c.group)
            u == computeLittleU(c.group, c.xA, B)
        IN  IF ~k.ok THEN [c |-> c1, err |-> k.err]
            ELSE IF ~u.ok THEN [c |-> c1, err |-> u.err]
            ELSE IF u.val = 0 THEN [c |-> c1, err |-> ErrInvalidU]
            ELSE
            LET S  == computeClientS(c.group, k.val, c.x, u.val, B, c.a)
                K  == hashBytes(c.group, Bytes(S.val))
                M1 == computeM1(c.group, c.username, c.salt, c.xA, B, K)
                M2 == computeM2(c.group, c.xA, M1.val, K)
            IN  IF ~M1.ok THEN [c |-> c1, err |-> M1.err]
                ELSE [c |-> [c EXCEPT !.xB = B, !.m1 = M1.val, !.m2 = M2.val,
                                      !.xS = S.val, !.xK = K],
                      err |-> NoErr]

SetB(c, public) ==
    LET B == SetBytes(public)
    IN  IF ~isValidEphemeralKey(c.group, B) THEN [c |-> c, err |-> ErrInvalidPublic]
        ELSE
        LET k == computeLittleK(c.group)
        IN  IF ~k.ok THEN [c |-> c, err |-> k.err]
            ELSE
            LET u == computeLittleU(c.group, c.xA, B)
            IN  IF ~u.ok THEN [c |-> c, err |-> u.err]
                ELSE IF u.val = 0 THEN [c |-> c, err |-> ErrInvalidU]
                ELSE
                LET S  == computeClientS(c.group, k.val, c.x, u.val, B, c.a)
                    K  == hashBytes(c.group, Bytes(S.val))
                    M1 == computeM1(c.group, c.username, c.salt, c.xA, B, K)
                IN  IF ~M1.ok THEN [c |-> c, err |-> M1.err]
                    ELSE
                    LET M2 == computeM2(c.group, c.xA, M1.val, K)
                    IN  [c |-> [c EXCEPT !.xB = B, !.m1 = M1.val, !.m2 = M2.val,
                                         !.xS = S.val, !.xK = K],
                         err |-> NoErr]

ClientA(c) == Bytes(c.xA)

ClientComputeM1(c) ==
    IF c.m1 = Nil THEN [val |-> NilBytes, err |-> ErrClientNotReady]
    ELSE [val |-> Bytes(c.m1), err |-> NoErr]

\* mutant: the proof is compared before SetB has stored one
CheckM2_NoReadyCheck(c, M2) ==
    [ok |-> checkProof(IF c.m2 = Nil THEN <<>> ELSE Bytes(c.m2), M2), err |-> NoErr]

CheckM2(c, M2) ==
    IF c.m2 = Nil THEN [ok |-> FALSE, err |-> ErrClientNotReady]
    ELSE [ok |-> checkProof(Bytes(c.m2), M2), err |-> NoErr]

\* mutant: K is written to the hasher, the key is the digest H(K)
ClientSessionKey_Hashed(c) ==
    IF c.xK = NilBytes THEN [val |-> NilBytes, err |-> ErrClientNotReady]
    ELSE [val |-> SubSeq(Sum(c.group.Hash, c.xK, <<>>), 1, Size(c.group.Hash)),
          err |-> NoErr]

\* digest := h.Sum(c.xK)[:h.Size()] on a hasher nothing was written to
ClientSessionKey(c) ==
    IF c.xK = NilBytes THEN [val |-> NilBytes, err |-> ErrClientNotReady]
    ELSE [val |-> SubSeq(Sum(c.group.Hash, <<>>, c.xK), 1, Size(c.group.Hash)),
          err |-> NoErr]

\* ComputeVerifier(group, username, password, salt)
ComputeVerifier(g, username, password, salt) ==
    IF g.Name \notin DOMAIN Groups
    THEN [val |-> NilBytes, err |-> ErrUnknownGroup, panic |-> FALSE]
    ELSE LET x == KDF(g, username, password, salt)
             v == Exp(g.Generator, SetBytes(x), g.N)
             t == NewTriplet(username, salt, Bytes(v))
         IN  [val |-> t.val, err |-> IF t.panic THEN ErrPanic ELSE NoErr,
              panic |-> t.panic]

(* ---------------------------------------------------------------------- *)
(* Server                                                                  *)
(* ---------------------------------------------------------------------- *)

NoServer ==
    [triplet |-> NilBytes, xA |-> Nil, b |-> Nil, xB |-> Nil, m1 |-> Nil,
     m2 |-> Nil, xS |-> Nil, xK |-> NilBytes, params |-> NoGroup,
     err |-> NoErr, verifiedM1 |-> FALSE]

\* mutant: a second SetA forgets that M1 was verified
storeA_ClearsProof(s, A, M1, M2, S, K) ==
    [s EXCEPT !.xA = A, !.m1 = M1, !.m2 = M2, !.xS = S, !.xK = K,
              !.verifiedM1 = FALSE]

\* mutant: a proof M2 already held is kept
storeA_StaleM2(s, A, M1, M2, S, K) ==
    [s EXCEPT !.xA = A, !.m1 = M1, !.xS = S, !.xK = K,
              !.m2 = IF s.m2 = Nil THEN M2 ELSE s.m2]

\* mutant: a session key already held is kept
storeA_KeepsK(s, A, M1, M2, S, K) ==
    [s EXCEPT !.xA = A, !.m1 = M1, !.m2 = M2, !.xS = S,
              !.xK = IF s.xK = NilBytes THEN K ELSE s.xK]

\* the assignments that end a successful SetA
storeA(s, A, M1, M2, S, K) ==
    [s EXCEPT !.xA = A, !.m1 = M1, !.m2 = M2, !.xS = S, !.xK = K]

SetA(s, public) ==
    LET A == SetBytes(public)
    IN  IF ~isValidEphemeralKey(s.params, A) THEN [s |-> s, err |-> ErrInvalidPublic]
        ELSE
        LET username == Username(s.triplet)
            salt     == Salt(s.triplet)
            verifier == Verifier(s.triplet)
        IN  IF username.panic \/ salt.panic \/ verifier.panic
            THEN [s |-> s, err |-> ErrPanic]
            ELSE
            LET v == SetBytes(verifier.val)
                u == computeLittleU(s.params, A, s.xB)
            IN  IF ~u.ok THEN [s |-> s, err |-> u.err]
                ELSE
                LET S  == computeServerS(s.params, v, u.val, A, s.b)
                    K  == hashBytes(s.params, Bytes(S.val))
                    M1 == computeM1(s.params, username.val, salt.val, A, s.xB, K)
                IN  IF ~M1.ok THEN [s |-> s, err |-> M1.err]
                    ELSE
                    LET M2 == computeM2(s.params, A, M1.val, K)
                    IN  [s |-> storeA(s, A, M1.val, M2.val, S.val, K),
                         err |-> NoErr]

ServerB(s) == Bytes(s.xB)

\* mutant: the sticky error is not looked at
CheckM1_NoStickyCheck(s, M1) ==
    IF s.m1 = Nil THEN [s |-> s, ok |-> FALSE, err |-> ErrServerNoReady]
    ELSE IF checkProof(Bytes(s.m1), M1)
         THEN [s |-> [s EXCEPT !.verifiedM1 = TRUE], ok |-> TRUE, err |-> NoErr]
         ELSE [s |-> [s EXCEPT !.verifiedM1 = FALSE, !.err = ErrM1Failed],
               ok |-> FALSE, err |-> NoErr]

\* mutant: a call before SetA counts as a failed proof
CheckM1_LatchWhenNotReady(s, M1) ==
    IF s.err # NoErr THEN [s |-> s, ok |-> FALSE, err |-> s.err]
    ELSE IF s.m1 # Nil /\ checkProof(Bytes(s.m1), M1)
         THEN [s |-> [s EXCEPT !.verifiedM1 = TRUE], ok |-> TRUE, err |-> NoErr]
         ELSE [s |-> [s EXCEPT !.verifiedM1 = FALSE, !.err = ErrM1Failed],
               ok |-> FALSE,
               err |-> IF s.m1 = Nil THEN ErrServerNoReady ELSE NoErr]

\* mutant: a mismatch also wipes the private exponent
CheckM1_WipesB(s, M1) ==
    IF s.err # NoErr THEN [s |-> s, ok |-> FALSE, err |-> s.err]
    ELSE IF s.m1 = Nil THEN [s |-> s, ok |-> FALSE, err |-> ErrServerNoReady]
    ELSE IF checkProof(Bytes(s.m1), M1)
         THEN [s |-> [s EXCEPT !.verifiedM1 = TRUE], ok |-> TRUE, err |-> NoErr]
         ELSE [s |-> [s EXCEPT !.verifiedM1 = FALSE, !.err = ErrM1Failed, !.b = Nil],
               ok |-> FALSE, err |-> NoErr]

CheckM1(s, M1) ==
    IF s.err # NoErr THEN [s |-> s, ok |-> FALSE, err |-> s.err]
    ELSE IF s.m1 = Nil THEN [s |-> s, ok |-> FALSE, err |-> ErrServerNoReady]
    ELSE IF checkProof(Bytes(s.m1), M1)
         THEN [s |-> [s EXCEPT !.verifiedM1 = TRUE], ok |-> TRUE, err |-> NoErr]
         ELSE [s |-> [s EXCEPT !.verifiedM1 = FALSE, !.err = ErrM1Failed],
               ok |-> FALSE, err |-> NoErr]

\* mutant: M2 is handed out without looking at verifiedM1
ComputeM2_NoProofCheck(s) ==
    IF s.err # NoErr THEN [val |-> NilBytes, err |-> s.err]
    ELSE IF s.m2 = Nil THEN [val |-> NilBytes, err |-> ErrServerNoReady]
    ELSE [val |-> Bytes(s.m2), err |-> NoErr]

ComputeM2(s) ==
    IF s.err # NoErr THEN [val |-> NilBytes, err |-> s.err]
    ELSE IF s.m2 = Nil THEN [val |-> NilBytes, err |-> ErrServerNoReady]
    ELSE IF ~s.verifiedM1 THEN [val |-> NilBytes, err |-> ErrProofFirst]
    ELSE [val |-> Bytes(s.m2), err |-> NoErr]

ServerSessionKey(s) ==
    IF s.err # NoErr THEN [val |-> NilBytes, err |-> s.err]
    ELSE IF s.xK = NilBytes THEN [val |-> NilBytes, err |-> ErrServerNoReady]
    ELSE [val |-> s.xK, err |-> NoErr]

\* mutant: Reset keeps the proof state of the previous session
Reset_KeepsProof(s, params, username, salt, verifier, b) ==
    LET k  == computeLittleK(params)
        t  == NewTriplet(username, salt, verifier)
        kp == newServerKeyPair(params, k.val, SetBytes(verifier), b)
    IN  IF ~k.ok THEN [s |-> s, err |-> k.err]
        ELSE IF t.panic THEN [s |-> s, err |-> ErrPanic]
        ELSE [s |-> [s EXCEPT !.triplet = t.val, !.xA = Nil, !.b = kp.b, !.xB = kp.B,
                              !.params = params],
              err |-> NoErr]

\* Reset with the random exponent b
Reset(s, params, username, salt, verifier, b) ==
    LET k == computeLittleK(params)
    IN  IF ~k.ok THEN [s |-> s, err |-> k.err]
        ELSE
        LET t == NewTriplet(username, salt, verifier)
        IN  IF t.panic THEN [s |-> s, err |-> ErrPanic]
            ELSE
            LET kp == newServerKeyPair(params, k.val, SetBytes(verifier), b)
            IN  [s |-> [triplet |-> t.val, xA |-> Nil, b |-> kp.b, xB |-> kp.B,
                        m1 |-> Nil, m2 |-> Nil, xS |-> Nil, xK |-> NilBytes,
                        params |-> params, err |-> NoErr, verifiedM1 |-> FALSE],
                 err |-> NoErr]

NewServer(params, username, salt, verifier, b) ==
    Reset(NoServer, params, username, salt, verifier, b)

(* ---------------------------------------------------------------------- *)
(* Save and RestoreServer                                                  *)
(* ---------------------------------------------------------------------- *)

NoBlob ==
    [triplet |-> NilBytes, b |-> NilBytes, B |-> NilBytes, A |-> NilBytes,
     verifiedM1 |-> FALSE]


\* mutant: the blob does not carry verifiedM1
jsonMarshal_NoVerified(state) ==
    [triplet |-> state.Triplet, b |-> state.LittleB, B |-> state.BigB,
     A |-> state.BigA, verifiedM1 |-> FALSE]

\* json.Marshal of serverState: "A" is omitted when empty (omitempty)
jsonMarshal(state) ==
    [triplet |-> state.Triplet, b |-> state.LittleB, B |-> state.BigB,
     A |-> IF state.BigA = NilBytes \/ Len(state.BigA) = 0
           THEN NilBytes ELSE state.BigA,
     verifiedM1 |-> state.VerifiedM1]

\* mutant: a blob that holds an A is read as one whose proof was verified
jsonUnmarshal_Verified(data) ==
    [Triplet |-> data.triplet, LittleB |-> data.b, BigB |-> data.B,
     BigA |-> data.A, VerifiedM1 |-> data.A # NilBytes]

\* json.Unmarshal into serverState: an absent "A" leaves BigA nil
jsonUnmarshal(data) ==
    [Triplet |-> data.triplet, LittleB |-> data.b, BigB |-> data.B,
     BigA |-> data.A, VerifiedM1 |-> data.verifiedM1]

MarshalJSON(s) ==
    IF s.err # NoErr THEN [blob |-> NoBlob, err |-> s.err]
    ELSE LET state == [Triplet |-> s.triplet, LittleB |-> Bytes(s.b),
                       BigB |-> Bytes(s.xB), VerifiedM1 |-> s.verifiedM1,
                       BigA |-> IF s.xA # Nil THEN Bytes(s.xA) ELSE NilBytes]
         IN  [blob |-> jsonMarshal(state), err |-> NoErr]

\* mutant: A is restored without recomputing S, K, M1 and M2 from it
UnmarshalJSON_NoSetA(s, data) ==
    LET state == jsonUnmarshal(data)
    IN  [s |-> [s EXCEPT !.triplet = state.Triplet,
                         !.xA = IF state.BigA # NilBytes THEN SetBytes(state.BigA) ELSE Nil,
                         !.b = SetBytes(state.LittleB), !.xB = SetBytes(state.BigB),
                         !.m1 = Nil, !.m2 = Nil, !.xS = Nil, !.xK = NilBytes,
                         !.err = NoErr, !.verifiedM1 = state.VerifiedM1],
         err |-> NoErr]

UnmarshalJSON(s, data) ==
    LET state == jsonUnmarshal(data)
        s1 == [s EXCEPT !.triplet = state.Triplet, !.xA = Nil,
                        !.b = SetBytes(state.LittleB), !.xB = SetBytes(state.BigB),
                        !.m1 = Nil, !.m2 = Nil, !.xS = Nil, !.xK = NilBytes,
                        !.err = NoErr, !.verifiedM1 = state.VerifiedM1]
    IN  IF state.BigA # NilBytes THEN SetA(s1, state.BigA)
        ELSE [s |-> s1, err |-> NoErr]

Save(s) == MarshalJSON(s)

RestoreServer(params, state) ==
    LET r == UnmarshalJSON([NoServer EXCEPT !.params = params], state)
    IN  IF r.err # NoErr THEN [s |-> NoServer, err |-> r.err]
        ELSE [s |-> r.s, err |-> NoErr]

(* ---------------------------------------------------------------------- *)
(* The sessions as a state machine                                         *)
(* ---------------------------------------------------------------------- *)

\* result of the last call; hist records what the state of the sessions does
\* not keep: the enrolled account, the password the client typed, the
\* arguments the server was built from, and whether CheckM1 has returned true
\* (m1ok) or false on a mismatch (m1bad, reprimed: SetA succeeded after it)
\* since the server was built or Reset; resetFrom names the state the last
\* Reset found the server in, until the next successful SetA
Ret(op, ok, err, val, blob) ==
    [op |-> op, ok |-> ok, err |-> err, val |-> val, blob |-> blob]

NoHist ==
    [enrol |-> <<>>, pw |-> NilBytes, srvArgs |-> <<>>, m1ok |-> FALSE, m1bad |-> FALSE,
     reprimed |-> FALSE, resetFrom |-> ""]

\* the verifier v = g^x % N of the enrolled credentials, as bytes
EnrolledVerifier ==
    Bytes(Exp(group.Generator,
              SetBytes(KDF(group, hist.enrol[1], hist.enrol[2], hist.enrol[3])),
              group.N))

\* the fields a server application reads back from the stored triplet
DecodedArgs == <<Username(db).val, Salt(db).val, Verifier(db).val>>

\* the fields as they were given to ComputeVerifier
RawArgs == <<hist.enrol[1], hist.enrol[3], EnrolledVerifier>>

ServerArgs == {DecodedArgs, RawArgs}

\* peer values offered to SetA and SetB besides the honest one
ForgedKeys == {<<>>, <<1>>, Bytes(group.N)}

\* a proof no digest equals
JunkProof == <<1, 1>>

InputsA == (IF client # NoClient THEN {ClientA(client)} ELSE {}) \cup ForgedKeys

InputsB == (IF server # NoServer THEN {ServerB(server)} ELSE {}) \cup ForgedKeys

InputsM1 ==
    (IF client.m1 # Nil THEN {Bytes(client.m1)} ELSE {})
    \cup (IF server.m1 # Nil THEN {Bytes(server.m1)} ELSE {})
    \cup {JunkProof}

InputsM2 ==
    (IF server.m2 # Nil THEN {Bytes(server.m2)} ELSE {})
    \cup (IF client.m2 # Nil THEN {Bytes(client.m2)} ELSE {})
    \cup {JunkProof}

\* goroutines that call Register: 0 calls it alone, 1 and 2 concurrently
Procs == {1, 2}

NoCall == [pc |-> "idle", g |-> NoGroup, err |-> NoErr]

NoCalls == [p \in {0} \cup Procs |-> NoCall]

Init ==
    /\ group \in {Groups[n] : n \in DOMAIN Groups}
    /\ \E acct \in Accounts :
          /\ db = ComputeVerifier(group, acct[1], acct[2], acct[3]).val
          /\ hist = [NoHist EXCEPT !.enrol = acct]
    /\ client = NoClient
    /\ server = NoServer
    /\ ret = Ret("none", FALSE, NoErr, NilBytes, NoBlob)
    /\ registeredGroups = BuiltinGroups
    /\ calls = NoCalls

DoNewClient ==
    /\ client = NoClient
    /\ \E password \in Passwords, a \in Exponents :
          LET r == NewClient(group, hist.enrol[1], password, hist.enrol[3], a)
          IN  /\ client' = r.c
              /\ ret' = Ret("NewClient", r.err = NoErr, r.err, NilBytes, NoBlob)
              /\ hist' = [hist EXCEPT !.pw = password]
    /\ UNCHANGED <<registeredGroups, calls, group, db, server>>

DoSetB ==
    /\ client # NoClient
    /\ \E public \in InputsB :
          LET r == SetB(client, public)
          IN  /\ client' = r.c
              /\ ret' = Ret("SetB", r.err = NoErr, r.err, NilBytes, NoBlob)
    /\ UNCHANGED <<registeredGroups, calls, group, db, server, hist>>

DoComputeM1 ==
    /\ client # NoClient
    /\ LET r == ClientComputeM1(client)
       IN  ret' = Ret("ComputeM1", r.err = NoErr, r.err, r.val, NoBlob)
    /\ UNCHANGED <<registeredGroups, calls, group, db, client, server, hist>>

DoCheckM2 ==
    /\ client # NoClient
    /\ \E M2 \in InputsM2 :
          LET r == CheckM2(client, M2)
          IN  ret' = Ret("CheckM2", r.ok, r.err, NilBytes, NoBlob)
    /\ UNCHANGED <<registeredGroups, calls, group, db, client, server, hist>>

DoClientSessionKey ==
    /\ client # NoClient
    /\ LET r == ClientSessionKey(client)
       IN  ret' = Ret("Client.SessionKey", r.err = NoErr, r.err, r.val, NoBlob)
    /\ UNCHANGED <<registeredGroups, calls, group, db, client, server, hist>>

\* the state of the specification's table a server is in
StateName(s) ==
    IF s.err # NoErr THEN "Failed"
    ELSE IF s.verifiedM1 THEN "Proven"
    ELSE IF s.xA # Nil THEN "Primed"
    ELSE "Fresh"

DoNewServer ==
    /\ server = NoServer
    /\ \E args \in ServerArgs, b \in Exponents :
          LET r == NewServer(group, args[1], args[2], args[3], b)
          IN  /\ server' = r.s
              /\ ret' = Ret("NewServer", r.err = NoErr, r.err, NilBytes, NoBlob)
              /\ hist' = [hist EXCEPT !.srvArgs = args, !.m1ok = FALSE, !.m1bad = FALSE,
                                      !.reprimed = FALSE]
    /\ UNCHANGED <<registeredGroups, calls, group, db, client>>

DoReset ==
    /\ server # NoServer
    /\ \E args \in ServerArgs, b \in Exponents :
          LET r == Reset(server, group, args[1], args[2], args[3], b)
          IN  /\ server' = r.s
              /\ ret' = Ret("Reset", r.err = NoErr, r.err, NilBytes, NoBlob)
              /\ hist' = [hist EXCEPT !.srvArgs = args, !.m1ok = FALSE, !.m1bad = FALSE,
                                      !.reprimed = FALSE,
                                      !.resetFrom = StateName(server)]
    /\ UNCHANGED <<registeredGroups, calls, group, db, client>>

DoSetA ==
    /\ server # NoServer
    /\ \E public \in InputsA :
          LET r == SetA(server, public)
          IN  /\ server' = r.s
              /\ ret' = Ret("SetA", r.err = NoErr, r.err, NilBytes, NoBlob)
              /\ hist' = [hist EXCEPT !.reprimed = @ \/ (hist.m1bad /\ r.err = NoErr),
                                      !.resetFrom = IF r.err = NoErr THEN "" ELSE @]
    /\ UNCHANGED <<registeredGroups, calls, group, db, client>>

DoCheckM1 ==
    /\ server # NoServer
    /\ \E M1 \in InputsM1 :
          LET r == CheckM1(server, M1)
          IN  /\ server' = r.s
              /\ ret' = Ret("CheckM1", r.ok, r.err, NilBytes, NoBlob)
              /\ hist' = [hist EXCEPT
                            !.m1ok = @ \/ r.ok,
                            !.m1bad = @ \/ (~r.ok /\ r.s.err # server.err)]
    /\ UNCHANGED <<registeredGroups, calls, group, db, client>>

DoComputeM2 ==
    /\ server # NoServer
    /\ LET r == ComputeM2(server)
       IN  ret' = Ret("ComputeM2", r.err = NoErr, r.err, r.val, NoBlob)
    /\ UNCHANGED <<registeredGroups, calls, group, db, client, server, hist>>

DoServerSessionKey ==
    /\ server # NoServer
    /\ LET r == ServerSessionKey(server)
       IN  ret' = Ret("Server.SessionKey", r.err = NoErr, r.err, r.val, NoBlob)
    /\ UNCHANGED <<registeredGroups, calls, group, db, client, server, hist>>

DoSave ==
    /\ server # NoServer
    /\ LET r == Save(server)
       IN  ret' = Ret("Save", r.err = NoErr, r.err, NilBytes, r.blob)
    /\ UNCHANGED <<registeredGroups, calls, group, db, client, server, hist>>

\* a new process restores the blob just saved
DoRestoreServer ==
    /\ ret.op = "Save"
    /\ ret.err = NoErr
    /\ LET r == RestoreServer(group, ret.blob)
       IN  /\ server' = r.s
           /\ ret' = Ret("RestoreServer", r.err = NoErr, r.err, NilBytes, NoBlob)
    /\ UNCHANGED <<registeredGroups, calls, group, db, client, hist>>

Next ==
    \/ DoNewClient
    \/ DoSetB
    \/ DoComputeM1
    \/ DoCheckM2
    \/ DoClientSessionKey
    \/ DoNewServer
    \/ DoReset
    \/ DoSetA
    \/ DoCheckM1
    \/ DoComputeM2
    \/ DoServerSessionKey
    \/ DoSave
    \/ DoRestoreServer

Spec == Init /\ [][Next]_vars

(* ---------------------------------------------------------------------- *)
(* The registry: Register calls and the calls that are given a group       *)
(* ---------------------------------------------------------------------- *)

\* groups a caller may pass to NewClient, NewServer, ComputeVerifier and
\* RestoreServer
AllGroups == {RFC5054Group2048, RFC5054Group1024, CustomGroupA, ImpostorGroup}

\* groups passed to Register
RegGroups == {CustomGroupA, CustomGroupB, RFC5054Group2048}

\* the verifier v = g^x % N of an account in group g, as bytes
VerifierOf(g, acct) ==
    Bytes(Exp(g.Generator, SetBytes(KDF(g, acct[1], acct[2], acct[3])), g.N))

\* no goroutine has been killed by the runtime
Alive == \A p \in DOMAIN calls : calls[p].pc # "fatal"

\* the program registers its groups before it opens sessions, and opens
\* sessions only when it has registered them from one goroutine
Registering == group = NoGroup

Opening == \A p \in Procs : calls[p].pc = "idle"

InFlight(p) == calls[p].pc \in {"lookup", "insert"}

RegInit ==
    /\ group = NoGroup
    /\ db = NilBytes
    /\ \E acct \in Accounts : hist = [NoHist EXCEPT !.enrol = acct]
    /\ client = NoClient
    /\ server = NoServer
    /\ ret = Ret("none", FALSE, NoErr, NilBytes, NoBlob)
    /\ registeredGroups = BuiltinGroups
    /\ calls = NoCalls

RegComputeVerifier ==
    /\ Opening
    /\ \E g \in AllGroups :
          LET r == ComputeVerifier(g, hist.enrol[1], hist.enrol[2], hist.enrol[3])
          IN  /\ db' = r.val
              /\ group' = g
              /\ ret' = Ret("ComputeVerifier", r.err = NoErr, r.err, r.val, NoBlob)
    /\ UNCHANGED <<client, server, hist, registeredGroups, calls>>

RegNewClient ==
    /\ Opening
    /\ \E g \in AllGroups :
          LET r == NewClient(g, hist.enrol[1], hist.enrol[2], hist.enrol[3], 1)
          IN  /\ client' = r.c
              /\ group' = g
              /\ ret' = Ret("NewClient", r.err = NoErr, r.err, NilBytes, NoBlob)
    /\ UNCHANGED <<db, server, hist, registeredGroups, calls>>

RegNewServer ==
    /\ Opening
    /\ \E g \in AllGroups :
          LET r == NewServer(g, hist.enrol[1], hist.enrol[3], VerifierOf(g, hist.enrol), 1)
          IN  /\ server' = r.s
              /\ group' = g
              /\ ret' = Ret("NewServer", r.err = NoErr, r.err, NilBytes, NoBlob)
    /\ UNCHANGED <<db, client, hist, registeredGroups, calls>>

RegSave == Opening /\ DoSave

\* a process restores the blob just saved, naming a group
RegRestoreServer ==
    /\ Opening
    /\ ret.op = "Save"
    /\ ret.err = NoErr
    /\ \E g \in AllGroups :
          LET r == RestoreServer(g, ret.blob)
          IN  /\ server' = r.s
              /\ group' = g
              /\ ret' = Ret("RestoreServer", r.err = NoErr, r.err, NilBytes, NoBlob)
    /\ UNCHANGED <<db, client, hist, registeredGroups, calls>>

\* Register called while no other call is running
RegisterAlone ==
    /\ Alive
    /\ Registering
    /\ \A p \in Procs : ~InFlight(p)
    /\ \E g \in RegGroups :
          LET r == Register(registeredGroups, g)
          IN  /\ registeredGroups' = r.rg
              /\ calls' = [calls EXCEPT ![0] = [pc |-> "done", g |-> g, err |-> r.err]]
              /\ ret' = Ret("Register", r.err = NoErr, r.err, NilBytes, NoBlob)
    /\ UNCHANGED <<group, db, client, server, hist>>

\* goroutine p calls Register(g); free: no group had g's name at that time
RegisterCall(p) ==
    /\ Alive
    /\ Registering
    /\ calls[p].pc = "idle"
    /\ \E g \in {CustomGroupA, CustomGroupB} :
          calls' = [calls EXCEPT ![p] =
                       [pc |-> "lookup", g |-> g, err |-> NoErr,
                        free |-> g.Name \notin DOMAIN registeredGroups]]
    /\ UNCHANGED <<group, db, client, server, ret, hist, registeredGroups>>

\* _, ok := registeredGroups[g.Name]; if ok { return error }
RegisterLookup(p) ==
    /\ Alive
    /\ calls[p].pc = "lookup"
    /\ calls' = [calls EXCEPT ![p] =
                    IF calls[p].g.Name \in DOMAIN registeredGroups
                    THEN [@ EXCEPT !.pc = "done", !.err = ErrGroupExists]
                    ELSE [@ EXCEPT !.pc = "insert"]]
    /\ UNCHANGED <<group, db, client, server, ret, hist, registeredGroups>>

\* registeredGroups[g.Name] = g; return nil
RegisterInsert(p) ==
    /\ Alive
    /\ calls[p].pc = "insert"
    /\ registeredGroups' = MapStore(registeredGroups, calls[p].g)
    /\ calls' = [calls EXCEPT ![p] = [@ EXCEPT !.pc = "done", !.err = NoErr]]
    /\ UNCHANGED <<group, db, client, server, ret, hist>>

\* the map write of p races with the map access of another goroutine: the
\* runtime may stop the program
RegisterFatal(p) ==
    /\ Alive
    /\ calls[p].pc = "insert"
    /\ \E q \in Procs \ {p} : InFlight(q)
    /\ calls' = [q \in DOMAIN calls |->
                    IF q \in Procs /\ InFlight(q)
                    THEN [calls[q] EXCEPT !.pc = "fatal", !.err = ErrFatalMapWrites]
                    ELSE calls[q]]
    /\ UNCHANGED <<group, db, client, server, ret, hist, registeredGroups>>

RegNext ==
    \/ RegComputeVerifier
    \/ RegNewClient
    \/ RegNewServer
    \/ RegSave
    \/ RegRestoreServer
    \/ RegisterAlone
    \/ \E p \in Procs : RegisterCall(p)
    \/ \E p \in Procs : RegisterLookup(p)
    \/ \E p \in Procs : RegisterInsert(p)
    \/ \E p \in Procs : RegisterFatal(p)

RegSpec == RegInit /\ [][RegNext]_vars

(* ---------------------------------------------------------------------- *)
(* Ephemeral keys: one peer, given every value the other could send       *)
(* ---------------------------------------------------------------------- *)

\* every value below N, and N itself, as the bytes a peer sends
PeerKeys(g) == {Bytes(y) : y \in 0 .. g.N}

\* verifiers v for which k*v + g^b % N = 0 for an exponent b that can be drawn
WeakVerifiers(g) ==
    LET k == computeLittleK(g).val
    IN  {Bytes(v) : v \in {w \in 1 .. g.N - 1 :
                              \E b \in Exponents : newServerKeyPair(g, k, w, b).B = 0}}

\* verifiers a server is built from
KeyVerifiers(g) == {VerifierOf(g, hist.enrol)} \cup WeakVerifiers(g)

KeyInit ==
    /\ group \in {Groups[n] : n \in DOMAIN Groups}
    /\ db = NilBytes
    /\ \E acct \in Accounts : hist = [NoHist EXCEPT !.enrol = acct]
    /\ client = NoClient
    /\ server = NoServer
    /\ ret = Ret("none", FALSE, NoErr, NilBytes, NoBlob)
    /\ registeredGroups = BuiltinGroups
    /\ calls = NoCalls

KeyNewServer ==
    /\ server = NoServer
    /\ client = NoClient
    /\ \E v \in KeyVerifiers(group), b \in Exponents :
          LET r == NewServer(group, hist.enrol[1], hist.enrol[3], v, b)
          IN  /\ server' = r.s
              /\ ret' = Ret("NewServer", r.err = NoErr, r.err, NilBytes, NoBlob)
    /\ UNCHANGED <<group, db, client, hist, registeredGroups, calls>>

KeyReset ==
    /\ server # NoServer
    /\ \E v \in KeyVerifiers(group), b \in Exponents :
          LET r == Reset(server, group, hist.enrol[1], hist.enrol[3], v, b)
          IN  /\ server' = r.s
              /\ ret' = Ret("Reset", r.err = NoErr, r.err, NilBytes, NoBlob)
    /\ UNCHANGED <<group, db, client, hist, registeredGroups, calls>>

KeySetA ==
    /\ server # NoServer
    /\ server.xA = Nil
    /\ \E public \in PeerKeys(group) :
          LET r == SetA(server, public)
          IN  /\ server' = r.s
              /\ ret' = Ret("SetA", r.err = NoErr, r.err, NilBytes, NoBlob)
    /\ UNCHANGED <<group, db, client, hist, registeredGroups, calls>>

KeyNewClient ==
    /\ client = NoClient
    /\ server = NoServer
    /\ \E a \in Exponents :
          LET r == NewClient(group, hist.enrol[1], hist.enrol[2], hist.enrol[3], a)
          IN  /\ client' = r.c
              /\ ret' = Ret("NewClient", r.err = NoErr, r.err, NilBytes, NoBlob)
    /\ UNCHANGED <<group, db, server, hist, registeredGroups, calls>>

KeySetB ==
    /\ client # NoClient
    /\ client.xB = Nil
    /\ \E public \in PeerKeys(group) :
          LET r == SetB(client, public)
          IN  /\ client' = r.c
              /\ ret' = Ret("SetB", r.err = NoErr, r.err, NilBytes, NoBlob)
    /\ UNCHANGED <<group, db, server, hist, registeredGroups, calls>>

KeyNext ==
    \/ KeyNewServer
    \/ KeyReset
    \/ KeySetA
    \/ KeyNewClient
    \/ KeySetB

KeySpec == KeyInit /\ [][KeyNext]_vars

(* ---------------------------------------------------------------------- *)
(* Triplets: built from fields of every length class, and decoded         *)
(* ---------------------------------------------------------------------- *)

\* n bytes b
Rep(b, n) == [i \in 1 .. n |-> b]

\* n / 2 times the two-byte rune U+00E9
Runes(n) == [i \in 1 .. n |-> IF i % 2 = 1 THEN 195 ELSE 169]

TripUsernames ==
    {<<>>, <<97>>, Rep(97, MaxUint8), Rep(97, MaxUint8 + 1), Runes(MaxUint8 + 1)}

TripSalts == {<<>>, <<7>>, Rep(7, MaxUint8), Rep(7, MaxUint8 + 1)}

TripVerifiers == {<<>>, <<9>>, Rep(9, MaxUint8 + 1)}

\* buffers a database column can hold
RawBuffers == {<<>>, <<5>>, <<1, 97>>, <<0, 3, 1>>, <<1, 97, 1, 7, 9>>}

TripInit ==
    /\ group = NoGroup
    /\ db = NilBytes
    /\ \E username \in TripUsernames, salt \in TripSalts, verifier \in TripVerifiers :
          hist = [NoHist EXCEPT !.srvArgs = <<username, salt, verifier>>]
    /\ client = NoClient
    /\ server = NoServer
    /\ ret = Ret("none", FALSE, NoErr, NilBytes, NoBlob)
    /\ registeredGroups = BuiltinGroups
    /\ calls = NoCalls

\* NewTriplet(username, salt, verifier), as Reset and ComputeVerifier call it
TripNewTriplet ==
    /\ LET r == NewTriplet(hist.srvArgs[1], hist.srvArgs[2], hist.srvArgs[3])
       IN  /\ db' = IF r.panic THEN db ELSE r.val
           /\ ret' = Ret("NewTriplet", ~r.panic,
                         IF r.panic THEN ErrPanic ELSE NoErr, NilBytes, NoBlob)
    /\ UNCHANGED <<registeredGroups, calls, group, hist, client, server>>

TripScan ==
    /\ \E v \in RawBuffers \cup {NilBytes} :
          /\ db' = Scan(IF db = NilBytes THEN <<>> ELSE db, v)
          /\ ret' = Ret("Scan", TRUE, NoErr, NilBytes, NoBlob)
    /\ UNCHANGED <<registeredGroups, calls, group, hist, client, server>>

Decoded(op, r) ==
    Ret(op, ~r.panic, IF r.panic THEN ErrPanic ELSE NoErr,
        IF r.panic THEN NilBytes ELSE r.val, NoBlob)

TripUsername ==
    /\ db # NilBytes
    /\ ret' = Decoded("Username", Username(db))
    /\ UNCHANGED <<registeredGroups, calls, group, db, hist, client, server>>

TripSalt ==
    /\ db # NilBytes
    /\ ret' = Decoded("Salt", Salt(db))
    /\ UNCHANGED <<registeredGroups, calls, group, db, hist, client, server>>

TripVerifier ==
    /\ db # NilBytes
    /\ ret' = Decoded("Verifier", Verifier(db))
    /\ UNCHANGED <<registeredGroups, calls, group, db, hist, client, server>>

TripNext ==
    \/ TripNewTriplet
    \/ TripScan
    \/ TripUsername
    \/ TripSalt
    \/ TripVerifier

TripSpec == TripInit /\ [][TripNext]_vars

(* ---------------------------------------------------------------------- *)
(* pad: byte strings padded to the width of a modulus                      *)
(* ---------------------------------------------------------------------- *)

MaxPadLen == 3

PadBytes == {0, 1, 255}

\* the byte strings handed to pad
PadInputs == UNION {[1 .. n -> PadBytes] : n \in 0 .. MaxPadLen}

\* moduli of 5, 8, 9 and 16 bits
PadModuli == {23, 167, 263, 65521}

PadInit ==
    /\ \E n \in PadModuli : group = [RFC5054Group2048 EXCEPT !.Name = "pad", !.N = n]
    /\ db \in PadInputs
    /\ hist = NoHist
    /\ client = NoClient
    /\ server = NoServer
    /\ ret = Ret("none", FALSE, NoErr, NilBytes, NoBlob)
    /\ registeredGroups = BuiltinGroups
    /\ calls = NoCalls

\* pad(b, group.N.BitLen())
PadApply ==
    /\ LET r == pad(db, BitLen(group.N))
       IN  ret' = Ret("pad", r.ok, r.err, IF r.ok THEN r.val ELSE NilBytes, NoBlob)
    /\ UNCHANGED <<registeredGroups, calls, group, db, hist, client, server>>

\* computeLittleK(group), which pads the generator
PadLittleK ==
    /\ LET r == computeLittleK(group)
       IN  ret' = Ret("computeLittleK", r.ok, r.err,
                      IF r.ok THEN Bytes(r.val) ELSE NilBytes, NoBlob)
    /\ UNCHANGED <<registeredGroups, calls, group, db, hist, client, server>>

PadNext ==
    \/ PadApply
    \/ PadLittleK

PadSpec == PadInit /\ [][PadNext]_vars

(* ---------------------------------------------------------------------- *)
(* Properties                                                              *)
(* ---------------------------------------------------------------------- *)

ClientLive == client # NoClient

ServerLive == server # NoServer

\* the server states of the specification's table
Fresh == ServerLive /\ server.xA = Nil

Primed == ServerLive /\ server.xA # Nil /\ ~server.verifiedM1 /\ server.err = NoErr

Proven == ServerLive /\ server.verifiedM1 /\ server.err = NoErr

Failed == ServerLive /\ server.err # NoErr

\* the errors of kind NotReady on the server
NotReadyErrs == {ErrServerNoReady, ErrProofFirst}

ServerOps == {"SetA", "CheckM1", "ComputeM2", "Server.SessionKey", "Save"}

\* the client typed the enrolled password, each side holds the other's key
Exchanged ==
    /\ ClientLive /\ ServerLive
    /\ hist.pw = hist.enrol[2]
    /\ server.err = NoErr
    /\ server.xA = client.xA
    /\ client.xB = server.xB

\* C1: after an honest run (server built from the fields of the triplet
\* ComputeVerifier returned, SetA(client.A()) and SetB(server.B()) succeeded)
\* client.SessionKey() and server.SessionKey() return the same bytes.
C1_KeyAgreement ==
    (Exchanged /\ hist.srvArgs = DecodedArgs) =>
        /\ ClientSessionKey(client).err = NoErr
        /\ ServerSessionKey(server).err = NoErr
        /\ ClientSessionKey(client).val = ServerSessionKey(server).val

\* C2: in an honest run (server built from username, salt and the verifier of
\* the client's credentials) CheckM1(client.ComputeM1()) returns true with no
\* error, ComputeM2 then returns M2, and client.CheckM2(M2) returns true.
C2_MutualAuthentication ==
    (Exchanged /\ hist.srvArgs = RawArgs) =>
        LET m1 == ClientComputeM1(client)
            r  == CheckM1(server, m1.val)
            m2 == ComputeM2(r.s)
        IN  /\ m1.err = NoErr
            /\ r.ok /\ r.err = NoErr
            /\ m2.err = NoErr
            /\ CheckM2(client, m2.val).ok

\* C3: ComputeM2 returns proof bytes only when verifiedM1 is true; in every
\* state reached without a successful CheckM1 (Fresh, Primed) it fails with
\* an error of kind NotReady and returns no bytes.
C3_M2OnlyAfterProof ==
    /\ (ret.op = "ComputeM2" /\ ret.err = NoErr) =>
            (hist.m1ok /\ server.verifiedM1 /\ ret.val = Bytes(server.m2))
    /\ (ret.op = "ComputeM2" /\ (Fresh \/ Primed)) =>
            (ret.err \in NotReadyErrs /\ ret.val = NilBytes)
    /\ (Fresh \/ Primed) =>
            (ComputeM2(server).err \in NotReadyErrs /\ ComputeM2(server).val = NilBytes)

C3_Witness ==
    Primed /\ ~hist.m1ok /\ ret.op = "ComputeM2" /\ ret.err = ErrProofFirst

\* C4: CheckM1 with bytes that differ from the expected M1, after a successful
\* SetA, returns (false, AuthenticationFailed) on that call and latches the error.
C4_MismatchReturnsError ==
    (ret.op = "CheckM1" /\ ~ret.ok /\ server.m1 # Nil) =>
        (ret.err = ErrM1Failed /\ server.err = ErrM1Failed)

\* C5: after CheckM1 has returned false on a mismatch, every later ComputeM2,
\* SessionKey and CheckM1 call fails with the latched error and returns no
\* M2 or K, also with the right M1 and after a further SetA, until Reset.
C5_LatchedUntilReset ==
    hist.m1bad =>
        /\ server.err = ErrM1Failed
        /\ ComputeM2(server) = [val |-> NilBytes, err |-> ErrM1Failed]
        /\ ServerSessionKey(server) = [val |-> NilBytes, err |-> ErrM1Failed]
        /\ \A m \in InputsM1 :
              CheckM1(server, m) = [s |-> server, ok |-> FALSE, err |-> ErrM1Failed]
        /\ (ret.op \in {"ComputeM2", "Server.SessionKey"}) =>
              (ret.err = ErrM1Failed /\ ret.val = NilBytes)

C5_Witness ==
    /\ hist.m1bad /\ hist.reprimed
    /\ ret.op = "CheckM1" /\ ret.err = ErrM1Failed

\* C6: once the sticky error is set, SetA, CheckM1, ComputeM2, SessionKey and
\* Save all fail with that error.
C6_AllOperationsFail ==
    Failed =>
        /\ \A public \in InputsA : SetA(server, public).err = server.err
        /\ \A m \in InputsM1 : CheckM1(server, m).err = server.err
        /\ ComputeM2(server).err = server.err
        /\ ServerSessionKey(server).err = server.err
        /\ Save(server).err = server.err

\* C7 as stated: once Proven, no SetA, CheckM1, ComputeM2, SessionKey or Save
\* call takes the server out of Proven.
C7_ProvenIsTerminal ==
    [][(Proven /\ ret'.op \in ServerOps) => Proven']_vars

\* C7 amended: once Proven, SetA, ComputeM2, SessionKey, Save and every
\* CheckM1 call that returns true leave the server Proven; a CheckM1 call
\* that returns false takes it to Failed.
C7_ProvenUntilMismatch ==
    [][(Proven /\ ret'.op \in ServerOps) =>
          IF ret'.op = "CheckM1" /\ ~ret'.ok
          THEN ~server'.verifiedM1 /\ server'.err = ErrM1Failed
          ELSE Proven']_vars

C7_Witness ==
    Proven /\ hist.m1ok /\ ret.op = "SetA" /\ ret.ok

\* C8: on a Fresh server CheckM1, ComputeM2 and SessionKey fail with NotReady
\* and change no field; CheckM1 latches nothing, so that SetA followed by
\* CheckM1 with the right M1 succeeds.
C8_FreshNotReady ==
    /\ [](Fresh =>
            /\ server.err = NoErr /\ server.m1 = Nil
            /\ \A public \in InputsA :
                  LET r == SetA(CheckM1(server, JunkProof).s, public)
                  IN  r.err = NoErr => CheckM1(r.s, Bytes(r.s.m1)).ok)
    /\ [][(Fresh /\ ret'.op \in {"CheckM1", "ComputeM2", "Server.SessionKey"}) =>
            /\ server' = server
            /\ ret'.err = ErrServerNoReady
            /\ ~ret'.ok
            /\ ret'.val = NilBytes]_vars

C8_Witness ==
    Fresh /\ ret.op = "CheckM1" /\ ret.err = ErrServerNoReady

\* C9: before SetB has succeeded ComputeM1, CheckM2 and SessionKey return
\* NotReady (CheckM2 false) whatever the bytes; after it none of them does.
C9_ClientNotReady ==
    ClientLive =>
        IF client.xB = Nil
        THEN /\ ClientComputeM1(client) = [val |-> NilBytes, err |-> ErrClientNotReady]
             /\ \A m \in InputsM2 :
                   CheckM2(client, m) = [ok |-> FALSE, err |-> ErrClientNotReady]
             /\ ClientSessionKey(client) = [val |-> NilBytes, err |-> ErrClientNotReady]
             /\ (ret.op \in {"ComputeM1", "CheckM2", "Client.SessionKey"}) =>
                   (ret.err = ErrClientNotReady /\ ~ret.ok)
        ELSE /\ ClientComputeM1(client).err = NoErr
             /\ \A m \in InputsM2 : CheckM2(client, m).err = NoErr
             /\ ClientSessionKey(client).err = NoErr
             /\ (ret.op \in {"ComputeM1", "CheckM2", "Client.SessionKey"}) =>
                   ret.err = NoErr

C9_Witness ==
    /\ ClientLive /\ client.xB = Nil
    /\ ret.op = "CheckM2" /\ ret.err = ErrClientNotReady

\* C10: Server.SessionKey returns an error and no key as long as CheckM1 has
\* not verified the client's proof.
C10_KeyNeedsProof ==
    (ret.op = "Server.SessionKey" /\ ~server.verifiedM1) =>
        (ret.err # NoErr /\ ret.val = NilBytes)

\* C11: a successful Reset from any state leaves verifiedM1 false, the sticky
\* error cleared and A, M1, M2, S, K unset; CheckM1 with the M1 the server
\* accepted before, or any other, returns NotReady until SetA succeeds again.
C11_ResetIsFresh ==
    /\ [][(ret'.op = "Reset" /\ ret'.err = NoErr) =>
            /\ ~server'.verifiedM1 /\ server'.err = NoErr
            /\ server'.xA = Nil /\ server'.m1 = Nil /\ server'.m2 = Nil
            /\ server'.xS = Nil /\ server'.xK = NilBytes
            /\ server.m1 # Nil =>
                  CheckM1(server', Bytes(server.m1)) =
                      [s |-> server', ok |-> FALSE, err |-> ErrServerNoReady]]_vars
    /\ []((ServerLive /\ hist.resetFrom # "") =>
            /\ Fresh /\ ~server.verifiedM1 /\ server.err = NoErr
            /\ \A m \in InputsM1 : CheckM1(server, m).err = ErrServerNoReady)

C11_Witness ==
    /\ hist.resetFrom = "Proven"
    /\ ret.op = "CheckM1" /\ ret.err = ErrServerNoReady

\* the fields the fidelity property compares
SameSession(s, t) ==
    /\ s.triplet = t.triplet /\ s.b = t.b /\ s.xB = t.xB /\ s.xA = t.xA
    /\ s.xS = t.xS /\ s.xK = t.xK /\ s.verifiedM1 = t.verifiedM1

\* C12: for every server on which SetA has succeeded and no sticky error is
\* set, RestoreServer(group, Save()) succeeds and yields a server with the
\* same triplet, b, B, A, S, K and verifiedM1.
C12_SaveRestoreFidelity ==
    /\ []((ServerLive /\ server.xA # Nil /\ server.err = NoErr) =>
            LET sv == Save(server)
                r  == RestoreServer(server.params, sv.blob)
            IN  sv.err = NoErr /\ r.err = NoErr /\ SameSession(server, r.s))
    /\ [][(ret'.op = "RestoreServer" /\ server.xA # Nil) =>
            (ret'.err = NoErr /\ SameSession(server, server'))]_vars

C12_Witness ==
    /\ ret.op = "RestoreServer" /\ ret.ok
    /\ server.xA # Nil /\ server.xK # NilBytes /\ server.verifiedM1

\* what a server answers to CheckM1(m) and to the ComputeM2 and SessionKey
\* calls that follow it
Answers(s, m) ==
    LET r == CheckM1(s, m)
    IN  <<r.ok, r.err, ComputeM2(r.s), ServerSessionKey(r.s)>>

\* C13: a server restored from a blob saved after SetA and before CheckM1
\* answers CheckM1(m), and the ComputeM2 and SessionKey calls after it, as the
\* original does, for every m; it accepts the M1 the original accepts.
C13_RestoredBehavesAlike ==
    /\ [](Primed =>
            LET r == RestoreServer(server.params, Save(server).blob)
            IN  /\ r.err = NoErr
                /\ \A m \in InputsM1 : Answers(r.s, m) = Answers(server, m)
                /\ CheckM1(r.s, Bytes(server.m1)).ok)
    /\ [][(ret'.op = "RestoreServer" /\ Primed) =>
            /\ ret'.err = NoErr
            /\ \A m \in InputsM1 : Answers(server', m) = Answers(server, m)
            /\ CheckM1(server', Bytes(server.m1)).ok]_vars

C13_Witness ==
    /\ ret.op = "RestoreServer" /\ ret.ok /\ Primed
    /\ CheckM1(server, Bytes(server.m1)).ok
    /\ ~CheckM1(server, JunkProof).ok

\* a group of that name is in the registry (Groups, or the map Register fills)
Registered(name) == name \in DOMAIN Groups \/ name \in DOMAIN registeredGroups

\* C14: RestoreServer fails with UnregisteredGroup, and returns no server,
\* when the group named for the saved session is not in the registry.
C14_RestoreNeedsRegisteredGroup ==
    (ret.op = "RestoreServer" /\ ~Registered(group.Name)) =>
        (ret.err = ErrUnknownGroup /\ ~ret.ok /\ server = NoServer)

\* C15: NewClient, NewServer and ComputeVerifier fail with UnregisteredGroup,
\* and create nothing, when the given group's name is not in the registry.
C15_UnregisteredGroupRejected ==
    (ret.op \in {"NewClient", "NewServer", "ComputeVerifier"}
        /\ ~Registered(group.Name)) =>
        /\ ret.err = ErrUnknownGroup /\ ~ret.ok /\ ret.val = NilBytes
        /\ ret.op = "NewClient" => client = NoClient
        /\ ret.op = "NewServer" => server = NoServer
        /\ ret.op = "ComputeVerifier" => db = NilBytes

\* C16: Register(g) inserts g when no group has g's name; when one has, it
\* fails with DuplicateGroup and leaves the registry as it was, the earlier
\* group still under that name.  Registering g twice in sequence succeeds the
\* first time and fails the second.
C16_RegisterOnce ==
    /\ [](\A g \in RegGroups :
            LET r == Register(registeredGroups, g)
            IN  /\ IF g.Name \in DOMAIN registeredGroups
                   THEN r.err = ErrGroupExists /\ r.rg = registeredGroups
                   ELSE r.err = NoErr /\ r.rg = MapStore(registeredGroups, g)
                /\ r.rg[g.Name] = IF g.Name \in DOMAIN registeredGroups
                                  THEN registeredGroups[g.Name] ELSE g
                /\ Register(r.rg, g) = [rg |-> r.rg, err |-> ErrGroupExists])
    /\ [][(ret'.op = "Register" /\ \A p \in Procs : calls'[p] = calls[p]) =>
               LET g == calls'[0].g
               IN  IF g.Name \in DOMAIN registeredGroups
                   THEN /\ ret'.err = ErrGroupExists
                        /\ registeredGroups' = registeredGroups
                   ELSE /\ ret'.err = NoErr
                        /\ DOMAIN registeredGroups' = DOMAIN registeredGroups \cup {g.Name}
                        /\ registeredGroups'[g.Name] = g
                        /\ \A n \in DOMAIN registeredGroups :
                              registeredGroups'[n] = registeredGroups[n]]_vars

C16_Witness ==
    /\ ret.op = "Register" /\ ret.err = ErrGroupExists
    /\ calls[0].g = CustomGroupB
    /\ registeredGroups["Custom Group"] = CustomGroupA

\* C17: two concurrent Register calls for two groups of one name that no
\* group had: in every interleaving one returns nil, the other DuplicateGroup,
\* and the registry holds the group of the call that returned nil.
C17_RegistrationRaceFree ==
    (/\ \A p \in Procs : calls[p].pc \in {"done", "fatal"} /\ calls[p].free
     /\ calls[1].g.Name = calls[2].g.Name) =>
        \E p \in Procs :
            /\ calls[p].err = NoErr
            /\ \A q \in Procs \ {p} : calls[q].err = ErrGroupExists
            /\ registeredGroups[calls[p].g.Name] = calls[p].g

\* a modulus with proper divisors, to have values y with y % N # 0 and
\* gcd(y, N) # 1
CompositeN == 13 * 17

WithCompositeN(g) == [g EXCEPT !.N = CompositeN]

\* byte strings of peer values that are not valid in group g
InvalidKeys(g) ==
    {Bytes(y) : y \in {z \in {0, 13, 17, 26, 34, g.N, 2 * g.N} :
                          z % g.N = 0 \/ GCD(z, g.N) # 1}}
    \cup {<<0>>, <<0>> \o Bytes(g.N)}

\* C18: in every state SetA and SetB refuse with InvalidEphemeralKey each
\* peer value y with y mod N = 0 or gcd(y, N) # 1, SetA(0) and SetB(N) among
\* them, and store nothing.
C18_InvalidKeysRefused ==
    /\ ServerLive =>
          \A g \in {server.params, WithCompositeN(server.params)} :
             \A y \in InvalidKeys(g) :
                LET s == [server EXCEPT !.params = g]
                IN  SetA(s, y) = [s |-> s, err |-> ErrInvalidPublic]
    /\ ClientLive =>
          \A g \in {client.group, WithCompositeN(client.group)} :
             \A y \in InvalidKeys(g) :
                LET c == [client EXCEPT !.group = g]
                IN  SetB(c, y) = [c |-> c, err |-> ErrInvalidPublic]
    /\ (ServerLive /\ server.xA # Nil) => isValidEphemeralKey(server.params, server.xA)
    /\ (ClientLive /\ client.xB # Nil) => isValidEphemeralKey(client.group, client.xB)

C18_Witness ==
    /\ ret.op = "SetA" /\ ret.err = ErrInvalidPublic
    /\ Proven
    /\ ClientLive /\ client.xB # Nil
    /\ Cardinality(InvalidKeys(WithCompositeN(group))) > Cardinality(InvalidKeys(group))

\* u = H(PAD(A) | PAD(B)) of the keys a peer has stored
StoredU(g, A, B) == computeLittleU(g, A, B).val

\* C19: both sides refuse u = 0: Client.SetB and Server.SetA fail with
\* InvalidU when u evaluates to 0, and store no S, K, M1 or M2.
C19_ZeroURefused ==
    /\ (ServerLive /\ server.xA # Nil) =>
            StoredU(server.params, server.xA, server.xB) # 0
    /\ (ClientLive /\ client.xB # Nil) =>
            StoredU(client.group, client.xA, client.xB) # 0
    /\ ServerLive =>
            \A public \in PeerKeys(group) :
               (/\ isValidEphemeralKey(server.params, SetBytes(public))
                /\ StoredU(server.params, SetBytes(public), server.xB) = 0) =>
                   SetA(server, public) = [s |-> server, err |-> ErrInvalidU]
    /\ ClientLive =>
            \A public \in PeerKeys(group) :
               (/\ isValidEphemeralKey(client.group, SetBytes(public))
                /\ StoredU(client.group, client.xA, SetBytes(public)) = 0) =>
                   SetB(client, public) = [c |-> client, err |-> ErrInvalidU]

\* C20: after NewServer or Reset has returned without error the public key
\* B = (k*v + g^b) % N is valid: B % N # 0 and gcd(B, N) = 1, for every
\* verifier and every exponent drawn.
C20_ServerKeyValid ==
    ServerLive => isValidEphemeralKey(server.params, server.xB)

\* C21: after NewClient has returned without error the public key
\* A = g^a % N is valid: A % N # 0 and gcd(A, N) = 1, for every exponent a
\* that can be drawn (zero and the multiples of the group order included).
C21_ClientKeyValid ==
    /\ (ClientLive /\ ret.op = "NewClient") =>
          /\ ret.err = NoErr
          /\ client.xA = Exp(group.Generator, client.a, group.N)
    /\ ClientLive => isValidEphemeralKey(client.group, client.xA)
    /\ \A a \in 0 .. group.N :
          isValidEphemeralKey(group, newClientKeyPair(group, a).A)

C21_Witness ==
    /\ ret.op = "NewClient" /\ ret.ok
    /\ client.a = MaxExp /\ client.xA > 1

\* C22: a triplet built by NewTriplet(username, salt, verifier) from a
\* username and a salt of at most 255 bytes each, and any verifier, is built
\* without failure and decodes to the same three fields.
C22_TripletRoundTrip ==
    LET username == hist.srvArgs[1]
        salt     == hist.srvArgs[2]
        verifier == hist.srvArgs[3]
    IN  (/\ ret.op = "NewTriplet"
         /\ Len(username) <= MaxUint8
         /\ Len(salt) <= MaxUint8) =>
            /\ ret.err = NoErr
            /\ Username(db) = [panic |-> FALSE, val |-> username]
            /\ Salt(db) = [panic |-> FALSE, val |-> salt]
            /\ Verifier(db) = [panic |-> FALSE, val |-> verifier]

\* C23: NewTriplet fails for every username of more than 255 bytes and for
\* every salt of more than 255 bytes, so that no length byte wraps.
C23_TooLongRefused ==
    (/\ ret.op = "NewTriplet"
     /\ \/ Len(hist.srvArgs[1]) > MaxUint8
        \/ Len(hist.srvArgs[2]) > MaxUint8) =>
        /\ ret.err = ErrPanic
        /\ db = NilBytes

\* the buffer is too short for its own length bytes
TooShort(p) ==
    \/ Len(p) = 0
    \/ Len(p) < p[1] + 2
    \/ Len(p) < p[1] + 2 + p[p[1] + 2]

\* C24: Username, Salt and Verifier never fail; of a buffer that is empty or
\* whose length byte points past its end each returns an empty field.
C24_DecodersTotal ==
    ret.op \in {"Username", "Salt", "Verifier"} =>
        /\ ret.err = NoErr
        /\ TooShort(db) => ret.val = <<>>

\* C25 as stated: Client.SessionKey, once SetB has succeeded, returns H(K),
\* the hash applied a second time to the pre-key K, and not K itself.
C25_ClientKeyIsHashOfK ==
    (ret.op = "Client.SessionKey" /\ client.xB # Nil) =>
        /\ ret.val = hashBytes(client.group, client.xK)
        /\ ret.val # client.xK

\* C25, amended: Client.SessionKey, once SetB has succeeded, returns the
\* pre-key K = H(S_bytes) itself, with no second hash: Sum appends the digest
\* of the empty input to K and the result is cut back to the hash size.
C25_ClientKeyIsK ==
    /\ (ClientLive /\ client.xB # Nil) =>
          /\ client.xK = hashBytes(client.group, Bytes(client.xS))
          /\ ClientSessionKey(client) = [val |-> client.xK, err |-> NoErr]
    /\ (ret.op = "Client.SessionKey" /\ ret.ok) =>
          /\ ret.val = client.xK
          /\ ret.val # hashBytes(client.group, client.xK)

C25_Witness ==
    /\ ret.op = "Client.SessionKey" /\ ret.ok
    /\ client.xB # Nil /\ ret.val = client.xK

\* the client was built with a password other than the enrolled one, and the
\* two peers hold each other's public key
WrongPassword ==
    /\ ClientLive /\ ServerLive
    /\ hist.pw # hist.enrol[2]
    /\ server.err = NoErr
    /\ server.xA = client.xA
    /\ client.xB = server.xB

\* K and M1 of the two peers when the server holds the verifier of the
\* account and the client was given password
Proofs(g, acct, password, a, b) ==
    LET v  == Exp(g.Generator, SetBytes(KDF(g, acct[1], acct[2], acct[3])), g.N)
        x  == SetBytes(KDF(g, acct[1], password, acct[3]))
        k  == computeLittleK(g).val
        A  == newClientKeyPair(g, a).A
        B  == newServerKeyPair(g, k, v, b).B
        u  == computeLittleU(g, A, B).val
        Ks == hashBytes(g, Bytes(computeServerS(g, v, u, A, b).val))
        Kc == hashBytes(g, Bytes(computeClientS(g, k, x, u, B, a).val))
    IN  [server |-> [K |-> Ks, M1 |-> computeM1(g, acct[1], acct[3], A, B, Ks).val],
         client |-> [K |-> Kc, M1 |-> computeM1(g, acct[1], acct[3], A, B, Kc).val]]

\* C26: with a password other than the enrolled one, after SetA and SetB,
\* CheckM1 of the client's M1 returns false, the server is not Proven
\* afterwards and ComputeM2 returns no M2.
C26_WrongPasswordFails ==
    /\ WrongPassword =>
          LET r == CheckM1(server, ClientComputeM1(client).val)
          IN  /\ ~r.ok
              /\ ~r.s.verifiedM1
              /\ ComputeM2(r.s).err # NoErr
              /\ ComputeM2(r.s).val = NilBytes
    /\ (client = NoClient /\ server = NoServer) =>
          \A acct \in Accounts, a \in Exponents, b \in Exponents :
          \A password \in Passwords \ {acct[2]} :
             LET p == Proofs(group, acct, password, a, b)
             IN  /\ p.client.K # p.server.K
                 /\ ~checkProof(Bytes(p.server.M1), Bytes(p.client.M1))

C26_Witness ==
    /\ ClientLive /\ ServerLive
    /\ hist.pw # hist.enrol[2]
    /\ server.xA = client.xA /\ client.xB = server.xB
    /\ ret.op = "CheckM1" /\ ~ret.ok
    /\ server.err = ErrM1Failed /\ ~hist.m1ok

\* C27: ComputeVerifier is deterministic: for a registered group it returns
\* the triplet (username, salt, v) with v = g^x % N and x the KDF of the
\* inputs; a second call with the same inputs returns the same triplet, and
\* the username and salt fields of the triplet are the ones given.
C27_VerifierDeterministic ==
    LET username == hist.enrol[1]
        password == hist.enrol[2]
        salt     == hist.enrol[3]
        first    == ComputeVerifier(group, username, password, salt)
        second   == ComputeVerifier(group, username, password, salt)
        v        == Exp(group.Generator,
                        SetBytes(KDF(group, username, password, salt)), group.N)
    IN  /\ first.err = NoErr
        /\ db = first.val
        /\ second = first
        /\ Username(first.val).val = username
        /\ Salt(first.val).val = salt
        /\ Verifier(first.val).val = Bytes(v)

\* proofs offered to CheckM2: those of either peer, junk, nothing, and the
\* expected one with a byte before it or after it
ProofsM2 ==
    InputsM2 \cup {<<>>, Bytes(client.m2) \o <<0>>, <<0>> \o Bytes(client.m2)}

\* C28: once SetB has succeeded, CheckM2 returns true exactly for the bytes
\* that equal the expected M2 (same length, same bytes) and false for any
\* other; the call leaves the client as it was, so a mismatch latches nothing.
C28_CheckM2Exact ==
    /\ [](ClientLive /\ client.xB # Nil =>
            \A M2 \in ProofsM2 :
               CheckM2(client, M2) = [ok |-> M2 = Bytes(client.m2), err |-> NoErr])
    /\ [][ret'.op = "CheckM2" => client' = client]_vars

C28_Witness ==
    /\ ClientLive /\ client.xB # Nil
    /\ ret.op = "CheckM2" /\ ret.ok /\ ret.err = NoErr

\* C29: the bytes ComputeM2 returns are the M2 of the A and the expected M1
\* against which a CheckM1 returned true: once SetA has stored another A,
\* with another expected M1, ComputeM2 returns no M2 before a CheckM1 has
\* verified that M1.
C29_M2OnlyOfVerifiedA ==
    [][(/\ ret'.op = "SetA" /\ ret'.ok
        /\ server.verifiedM1
        /\ server'.xA # server.xA
        /\ server'.m1 # server.m1) =>
            /\ ComputeM2(server').err # NoErr
            /\ ComputeM2(server').val = NilBytes]_vars

\* the server as it was before any SetA
Unprimed(s) ==
    [s EXCEPT !.xA = Nil, !.m1 = Nil, !.m2 = Nil, !.xS = Nil, !.xK = NilBytes,
              !.verifiedM1 = FALSE, !.err = NoErr]

\* C30: a successful SetA on a server that holds an A already replaces A, M1,
\* M2, S and K with the values derived from the new A, whatever the old ones
\* were, and leaves verifiedM1 (and the sticky error) as it was.
C30_SecondSetAReplaces ==
    [][(ret'.op = "SetA" /\ ret'.ok /\ server.xA # Nil) =>
          LET fresh == SetA(Unprimed(server), Bytes(server'.xA)).s
          IN  /\ server'.xA = fresh.xA /\ server'.m1 = fresh.m1
              /\ server'.m2 = fresh.m2 /\ server'.xS = fresh.xS
              /\ server'.xK = fresh.xK
              /\ server'.xK = hashBytes(server.params, Bytes(server'.xS))
              /\ server'.m2 =
                    computeM2(server.params, server'.xA, server'.m1, server'.xK).val
              /\ server'.verifiedM1 = server.verifiedM1
              /\ server'.err = server.err
              /\ server'.xB = server.xB /\ server'.triplet = server.triplet]_vars

C30_Witness ==
    /\ ret.op = "SetA" /\ ret.ok
    /\ server.verifiedM1 /\ server.err = NoErr
    /\ ClientLive /\ server.xA # client.xA

\* C31: verifiedM1 becomes true only through a CheckM1 that returned true:
\* in every state reached by NewServer, SetA, CheckM1, ComputeM2, SessionKey,
\* Reset, Save and RestoreServer of a saved blob, verifiedM1 implies that
\* CheckM1 has returned true since the session was built or last Reset, and
\* the only call after which verifiedM1 is true and was not before is such
\* a CheckM1.
C31_VerifiedOnlyByCheckM1 ==
    /\ []((ServerLive /\ server.verifiedM1) => hist.m1ok)
    /\ [][(server'.verifiedM1 /\ ~server.verifiedM1) =>
             (ret'.op = "CheckM1" /\ ret'.ok)]_vars

C31_Witness ==
    /\ ServerLive /\ server.verifiedM1 /\ hist.m1ok
    /\ ret.op = "RestoreServer" /\ ret.err = NoErr
    /\ server.m2 # Nil

\* ceil(bitlen(N) / 8)
Width(N) == (BitLen(N) + 7) \div 8

\* C32: pad(x, N) returns x left-padded with zero bytes to exactly
\* ceil(bitlen(N) / 8) bytes for every x of at most that many bytes, also
\* when bitlen(N) is no multiple of 8, and fails when x is longer.
C32_PadToWidth ==
    ret.op = "pad" =>
        IF Len(db) <= Width(group.N)
        THEN /\ ret.ok
             /\ Len(ret.val) = Width(group.N)
             /\ ret.val = Zeros(Width(group.N) - Len(db)) \o db
        ELSE ~ret.ok /\ ret.val = NilBytes

\* the client as it was before any SetB
Unanswered(c) ==
    [c EXCEPT !.xB = Nil, !.m1 = Nil, !.m2 = Nil, !.xS = Nil, !.xK = NilBytes]

\* no derived value is held
ServerUnset(s) ==
    s.xA = Nil /\ s.m1 = Nil /\ s.m2 = Nil /\ s.xS = Nil /\ s.xK = NilBytes

ClientUnset(c) ==
    c.xB = Nil /\ c.m1 = Nil /\ c.m2 = Nil /\ c.xS = Nil /\ c.xK = NilBytes

\* C33: the derived fields are set together: on the server A, M1, M2, S and K
\* are all unset, or all set and the values SetA computes from that A and the
\* server's b, B and triplet; on the client B, M1, M2, S and K are all unset,
\* or all set and the values SetB computes from that B.
C33_DerivedTogether ==
    /\ ServerLive =>
          \/ ServerUnset(server)
          \/ /\ server.xA # Nil /\ server.m1 # Nil /\ server.m2 # Nil
             /\ server.xS # Nil /\ server.xK # NilBytes
             /\ LET r == SetA(Unprimed(server), Bytes(server.xA))
                IN  /\ r.err = NoErr
                    /\ Unprimed(server) = Unprimed(r.s)
                    /\ server.xA = r.s.xA /\ server.m1 = r.s.m1
                    /\ server.m2 = r.s.m2 /\ server.xS = r.s.xS
                    /\ server.xK = r.s.xK
    /\ ClientLive =>
          \/ ClientUnset(client)
          \/ /\ client.xB # Nil /\ client.m1 # Nil /\ client.m2 # Nil
             /\ client.xS # Nil /\ client.xK # NilBytes
             /\ SetB(Unanswered(client), Bytes(client.xB)) =
                   [c |-> client, err |-> NoErr]

C33_Witness ==
    /\ ServerLive /\ server.xA # Nil /\ hist.reprimed
    /\ ClientLive /\ client.xB # Nil
    /\ ret.op = "SetA" /\ ret.ok

\* C34: a SetA call that fails leaves every field of the server as it was,
\* and a SetB call that fails leaves every field of the client as it was:
\* the values an earlier successful call stored stay in place.
C34_FailedSetChangesNothing ==
    /\ [][(ret'.op = "SetA" /\ ~ret'.ok) => server' = server]_vars
    /\ [][(ret'.op = "SetB" /\ ~ret'.ok) => client' = client]_vars
    /\ []((ServerLive /\ ret.op = "SetA" /\ ~ret.ok) =>
            \A y \in 0 .. group.N :
               LET r == SetA(server, Bytes(y))
               IN  r.err # NoErr => r.s = server)
    /\ []((ClientLive /\ ret.op = "SetB" /\ ~ret.ok) =>
            \A y \in 0 .. group.N :
               LET r == SetB(client, Bytes(y))
               IN  r.err # NoErr => r.c = client)

C34_Witness ==
    /\ ClientLive /\ client.xB # Nil /\ client.xK # NilBytes
    /\ ret.op = "SetB" /\ ~ret.ok /\ ret.err = ErrInvalidPublic

\* triplet, b and B as NewServer or Reset chose them from the arguments
\* hist.srvArgs
Constructed(s) ==
    /\ s.triplet = NewTriplet(hist.srvArgs[1], hist.srvArgs[2], hist.srvArgs[3]).val
    /\ s.b \in Exponents
    /\ s.xB = newServerKeyPair(s.params, computeLittleK(s.params).val,
                               SetBytes(hist.srvArgs[3]), s.b).B

\* C35: SetA, CheckM1, ComputeM2, SessionKey, B and Save never change the
\* server's triplet, its private exponent b or its public key B: these stay
\* the values chosen at construction, at the last Reset or at Restore.
C35_TripletAndKeysFixed ==
    /\ [][ret'.op \in ServerOps =>
             /\ server'.triplet = server.triplet
             /\ server'.b = server.b
             /\ server'.xB = server.xB
             /\ ServerB(server') = ServerB(server)]_vars
    /\ [](ServerLive => Constructed(server))

C35_Witness ==
    /\ Failed /\ Constructed(server)
    /\ ret.op = "CheckM1" /\ ~ret.ok
    /\ server.xA # Nil /\ ServerB(server) = Bytes(server.xB)

\* C36: the registry is append-only and name-consistent: starting from the
\* pre-registered table, every registered name n maps to a group whose Name
\* is n, and no step removes an entry or replaces the group of an entry.
C36_RegistryAppendOnly ==
    /\ [](\A n \in DOMAIN registeredGroups : registeredGroups[n].Name = n)
    /\ [](\A n \in DOMAIN BuiltinGroups :
            n \in DOMAIN registeredGroups /\ registeredGroups[n] = BuiltinGroups[n])
    /\ [][\A n \in DOMAIN registeredGroups :
             /\ n \in DOMAIN registeredGroups'
             /\ registeredGroups'[n] = registeredGroups[n]]_vars

\* C37: the proof bytes Client.ComputeM1 and Server.ComputeM2 return have
\* exactly the digest length of the group's hash and are the digest byte
\* for byte, its leading zero bytes included.
C37_ProofsHaveDigestLength ==
    /\ (ret.op = "ComputeM1" /\ ret.ok) =>
          /\ Len(ret.val) = Size(client.group.Hash)
          /\ SetBytes(ret.val) = client.m1
    /\ (ret.op = "ComputeM2" /\ ret.ok) =>
          /\ Len(ret.val) = Size(server.params.Hash)
          /\ ret.val = Digest(server.params.Hash,
                              Bytes(server.xA) \o Bytes(server.m1) \o server.xK)

\* g bears a registered name and is not the group registered under it
Impostor(g) ==
    /\ Registered(g.Name)
    /\ g.Name \in DOMAIN Groups => Groups[g.Name] # g
    /\ g.Name \in DOMAIN registeredGroups => registeredGroups[g.Name] # g

\* C38: NewClient and ComputeVerifier accept a group only if the registry
\* maps its name to that very group: given a group whose Name is registered
\* and whose N, generator, hash or KDF differ from the registered group's
\* they fail with UnregisteredGroup and create nothing.
C38_ImpostorGroupRejected ==
    (ret.op \in {"NewClient", "ComputeVerifier"} /\ Impostor(group)) =>
        /\ ret.err = ErrUnknownGroup /\ ~ret.ok
        /\ ret.op = "NewClient" => client = NoClient
        /\ ret.op = "ComputeVerifier" => ret.val = NilBytes

====
